---- MODULE Spec2Model ----
(***************************************************************************)
(* A model of XORNG/template-task: the priority queue (utils/queue.ts),    *)
(* the execution history (utils/history.ts), the task wrapper              *)
(* (tasks/BaseTask.ts) and the executor's lifecycle                        *)
(* (base/BaseTaskExecutor.ts: executeTask and cancelTask).                 *)
(*                                                                         *)
(* JavaScript runs every callback to its next await, so one action is one  *)
(* such run-to-completion step.  An execution suspends in two places only: *)
(* awaiting task.execute while the task's run is in progress               *)
(* (pc = "running") and awaiting the backoff sleep (pc = "backoff").       *)
(***************************************************************************)
EXTENDS Integers, Sequences, FiniteSets, TLC

(***************************************************************************)
(* Bounds of the model.                                                    *)
(***************************************************************************)
MaxQueueSize == 3      \* the largest configured TaskQueue maxSize explored
MaxAdds == 4           \* add calls made on the queue in one behaviour
MaxRetries == 2        \* the largest retries option explored
MaxHistorySize == 3    \* the largest configured TaskHistory maxSize explored
MaxHelperCalls == 2      \* helper calls a run makes, one after the other
MaxLimit == 2            \* largest limit handed to getRecent and getByStatus
MaxHistoryAdds == 3    \* add calls made on the history in one behaviour

(***************************************************************************)
(* Program constants.                                                      *)
(***************************************************************************)
GetRecentDefaultLimit == 50
HistoryDefaultMaxSize == 1000   \* TaskHistory's default capacity

VARIABLES
    \* ---- TaskQueue ----
    queue,          \* TaskQueue.queue: the QueuedTask array, head first
    maxSize,        \* TaskQueue.maxSize
    adds,           \* number of add calls so far (the arrival clock)
    qOp,            \* the last queue call: <<name>> or <<name, argument>>
    qRet,           \* what that call returned
    \* ---- BaseTaskExecutor ----
    pc,             \* per execution: idle, running, backoff, returned
    call,           \* per execution: the arguments of its executeTask call
    retryCount,     \* per execution: the local retryCount
    lastError,      \* per execution: the local lastError
    result,         \* per execution: the TaskExecutionResult returned
    runningTasks,   \* ids that have an AbortController registered
    signal,         \* per execution: abortController.signal.aborted
    timer,          \* per execution: the timeout timer: none, armed, fired, cleared
    records,        \* TaskHistory.records, most recent first
    historyMax,     \* TaskHistory.maxSize
    \* ---- observations of a behaviour (not program state) ----
    executeCalls,   \* per execution: calls of task.execute
    runLog,         \* per execution: how each settled run ended
    runCalls,       \* per execution: calls of the task's run
    waits,          \* per execution: the backoff waits begun, in ms
    cancelledInRun, \* per execution: cancelTask returned true during its run
    cancelRet,      \* the last cancelTask call: <<id, returned value>>
    cancelled,      \* the ids for which cancelTask has returned true
    \* ---- TaskHistory called directly ----
    hOp,            \* the last history call: <<name>> or <<name, argument>>
    hRet,           \* what that call returned
    hAdds,          \* number of add calls so far
    hCleared,       \* the value of hAdds at the last clear
    \* ---- BaseTask.sleep and BaseTask.withTimeout ----
    wCall,          \* the latest helper call: <<[helper, ms, aborted, nth]>>,
                    \* aborted being signal.aborted at the time of the call
    wSignal,        \* signal.aborted of the signal handed to the helper
    wListener,      \* an 'abort' listener of the helper is registered
    wTimer,         \* the helper's timer: none, armed, fired, cleared
    wOperation,     \* the operation's promise: none, pending, settled
    wOutcome,       \* how the helper's promise settled: <<outcome>>
    wFirst          \* observation: the first event after the call

queueVars == <<queue, maxSize, adds, qOp, qRet>>
runVars == <<pc, call, retryCount, lastError, result, runningTasks, signal,
             timer, executeCalls, runLog, runCalls, waits, cancelledInRun,
             cancelRet, cancelled>>
execVars == <<pc, call, retryCount, lastError, result, runningTasks, signal,
              timer, records, historyMax, executeCalls, runLog, runCalls, waits,
              cancelledInRun, cancelRet, cancelled>>
histVars == <<hOp, hRet, hAdds, hCleared>>
helperVars == <<wCall, wSignal, wListener, wTimer, wOperation, wOutcome,
                wFirst>>
vars == <<queue, maxSize, adds, qOp, qRet, pc, call, retryCount, lastError,
          result, runningTasks, signal, timer, records, historyMax,
          executeCalls, runLog, runCalls, waits, cancelledInRun, cancelRet,
          cancelled, hOp, hRet, hAdds, hCleared, wCall, wSignal, wListener,
          wTimer, wOperation, wOutcome, wFirst>>

Undefined == <<>>      \* an absent optional field

\* the executeTask calls of a behaviour: the k-th call gets task id k
Executions == {1, 2}

(***************************************************************************)
(* TaskQueue                                                               *)
(***************************************************************************)
QueueIds == {"a", "b"}
\* "urgent" stands for any label that is none of the four cases of the switch
PriorityLabels == {"low", "normal", "high", "critical", "urgent"}
TaskDefinitions == [id : QueueIds, priority : PriorityLabels]

priorityToNumber(priority) ==
    CASE priority = "critical" -> 4
      [] priority = "high" -> 3
      [] priority = "normal" -> 2
      [] priority = "low" -> 1
      [] OTHER -> 2

\* Array.prototype.findIndex: tests[i] is the callback's value on the i-th
\* element; the 0-based index of the first element it accepts, or -1
findIndex(tests) ==
    IF \E i \in 1..Len(tests) : tests[i]
    THEN (CHOOSE i \in 1..Len(tests) :
              tests[i] /\ \A j \in 1..(i - 1) : ~tests[j]) - 1
    ELSE -1

\* arr.splice(index, 0, item)
spliceInsert(arr, index, item) ==
    SubSeq(arr, 1, index) \o <<item>> \o SubSeq(arr, index + 1, Len(arr))

\* arr.splice(index): everything from the index on goes
spliceRemoveRest(arr, index) == SubSeq(arr, 1, index)

\* arr.splice(index, 1)
spliceRemove(arr, index) ==
    SubSeq(arr, 1, index) \o SubSeq(arr, index + 2, Len(arr))

\* a capacity test that lets one entry too many in
isFullGT(q, max) == Len(q) > max

isFull(q, max) == Len(q) >= max

\* an insertion point that puts a new entry ahead of its equals
insertIndexLE(q, priorityValue) ==
    findIndex([i \in 1..Len(q) |-> q[i].priority <= priorityValue])

insertIndex(q, priorityValue) ==
    findIndex([i \in 1..Len(q) |-> q[i].priority < priorityValue])

\* the queue after add(task) when it is not full
inserted(q, task, arrival) ==
    LET priorityValue == priorityToNumber(task.priority)
        queuedTask == [id |-> task.id, task |-> task,
                       priority |-> priorityValue, arrival |-> arrival]
        index == insertIndex(q, priorityValue)
    IN  IF index = -1 THEN Append(q, queuedTask)
        ELSE spliceInsert(q, index, queuedTask)

\* all(): a copy of the array, in queue order
all == queue

peek(q) == IF Len(q) = 0 THEN Undefined ELSE <<q[1]>>

\* the array after Array.prototype.pop, taken for shift
shiftedLast(q) == IF Len(q) = 0 THEN q ELSE SubSeq(q, 1, Len(q) - 1)

\* the array after Array.prototype.shift
shifted(q) == IF Len(q) = 0 THEN q ELSE Tail(q)

QueueAdd(task) ==
    /\ adds < MaxAdds
    /\ adds' = adds + 1
    /\ qOp' = <<"add", task>>
    /\ IF isFull(queue, maxSize)
       THEN /\ queue' = queue
            /\ qRet' = <<FALSE>>
       ELSE /\ queue' = inserted(queue, task, adds + 1)
            /\ qRet' = <<TRUE>>
    /\ UNCHANGED <<maxSize>>
    /\ UNCHANGED <<execVars, histVars, helperVars>>

QueueNext ==
    /\ qOp' = <<"next">>
    /\ qRet' = peek(queue)
    /\ queue' = shifted(queue)
    /\ UNCHANGED <<maxSize, adds>>
    /\ UNCHANGED <<execVars, histVars, helperVars>>

QueuePeek ==
    /\ qOp' = <<"peek">>
    /\ qRet' = peek(queue)
    /\ UNCHANGED <<queue, maxSize, adds>>
    /\ UNCHANGED <<execVars, histVars, helperVars>>

QueueRemove(taskId) ==
    /\ qOp' = <<"remove", taskId>>
    /\ LET index == findIndex([i \in 1..Len(queue) |-> queue[i].id = taskId])
       IN  IF index # -1
           THEN /\ queue' = spliceRemove(queue, index)
                /\ qRet' = <<TRUE>>
           ELSE /\ queue' = queue
                /\ qRet' = <<FALSE>>
    /\ UNCHANGED <<maxSize, adds>>
    /\ UNCHANGED <<execVars, histVars, helperVars>>

QueueClear ==
    /\ qOp' = <<"clear">>
    /\ qRet' = Undefined
    /\ queue' = <<>>
    /\ UNCHANGED <<maxSize, adds>>
    /\ UNCHANGED <<execVars, histVars, helperVars>>

RunIdle ==
    /\ pc = [e \in Executions |-> "idle"]
    /\ call = [e \in Executions |-> Undefined]
    /\ retryCount = [e \in Executions |-> 0]
    /\ lastError = [e \in Executions |-> Undefined]
    /\ result = [e \in Executions |-> Undefined]
    /\ runningTasks = {}
    /\ signal = [e \in Executions |-> FALSE]
    /\ timer = [e \in Executions |-> "none"]
    /\ executeCalls = [e \in Executions |-> 0]
    /\ runLog = [e \in Executions |-> <<>>]
    /\ runCalls = [e \in Executions |-> 0]
    /\ waits = [e \in Executions |-> <<>>]
    /\ cancelledInRun = [e \in Executions |-> FALSE]
    /\ cancelRet = Undefined
    /\ cancelled = {}

HistoryIdle ==
    /\ hOp = Undefined
    /\ hRet = Undefined
    /\ hAdds = 0
    /\ hCleared = 0

HelperIdle ==
    /\ wCall = Undefined
    /\ wSignal = FALSE
    /\ wListener = FALSE
    /\ wTimer = "none"
    /\ wOperation = "none"
    /\ wOutcome = Undefined
    /\ wFirst = Undefined

ExecIdle ==
    /\ RunIdle
    /\ records = <<>>
    /\ historyMax = HistoryDefaultMaxSize

QueueIdle ==
    /\ queue = <<>>
    /\ maxSize = 0
    /\ adds = 0
    /\ qOp = Undefined
    /\ qRet = Undefined

QueueInit ==
    /\ queue = <<>>
    /\ maxSize \in 0..MaxQueueSize
    /\ adds = 0
    /\ qOp = Undefined
    /\ qRet = Undefined
    /\ ExecIdle
    /\ HistoryIdle
    /\ HelperIdle

QueueStep ==
    \/ \E task \in TaskDefinitions : QueueAdd(task)
    \/ QueueNext
    \/ QueuePeek
    \/ \E taskId \in QueueIds : QueueRemove(taskId)
    \/ QueueClear

\* a TaskQueue driven by any sequence of its calls
SpecQueue == QueueInit /\ [][QueueStep]_vars

(***************************************************************************)
(* TaskHistory                                                             *)
(***************************************************************************)
\* an add that writes over the latest record instead of shifting it
historyAddOverwrites(recs, res, max) ==
    IF recs = <<>> THEN <<res>> ELSE <<res>> \o Tail(recs)

\* a trim that keeps the tail of the array, the oldest records
historyAddKeepsOldest(recs, res, max) ==
    LET unshifted == <<res>> \o recs
    IN  IF Len(unshifted) > max
        THEN SubSeq(unshifted, Len(unshifted) - max + 1, Len(unshifted))
        ELSE unshifted

\* records after add(result): unshift, then slice(0, maxSize) when over
historyAdd(recs, res, max) ==
    LET unshifted == <<res>> \o recs
    IN  IF Len(unshifted) > max THEN SubSeq(unshifted, 1, max) ELSE unshifted

\* getByTaskId: the first record with that id, or undefined
getByTaskId(recs, taskId) ==
    LET index == findIndex([i \in 1..Len(recs) |-> recs[i].taskId = taskId])
    IN  IF index = -1 THEN Undefined ELSE <<recs[index + 1]>>

\* records.filter(r => r.status === status).length
countStatus(recs, status) ==
    Len(SelectSeq(recs, LAMBDA r : r.status = status))

\* durations.reduce((a, b) => a + b, 0)
RECURSIVE sum(_)
sum(numbers) ==
    IF numbers = <<>> THEN 0 ELSE Head(numbers) + sum(Tail(numbers))

\* a rounding that truncates
mathFloor(num, den) == num \div den

\* Math.round(num / den) for num >= 0 and den > 0: halves round up
mathRound(num, den) == (2 * num + den) \div (2 * den)

\* getStats(); successRate is held in hundredths, the value of
\* Math.round(successRate * 100) that the code then divides by 100
getStats(recs) ==
    LET total == Len(recs)
        completed == countStatus(recs, "completed")
        timed == SelectSeq(recs, LAMBDA r : r.durationMs # Undefined)
        durations == [i \in 1..Len(timed) |-> timed[i].durationMs[1]]
    IN  [total |-> total,
         completed |-> completed,
         failed |-> countStatus(recs, "failed"),
         cancelled |-> countStatus(recs, "cancelled"),
         avgDurationMs |-> IF Len(durations) > 0
                           THEN mathRound(sum(durations), Len(durations))
                           ELSE 0,
         successRate |-> IF total > 0 THEN mathRound(completed * 100, total)
                         ELSE 0]

\* the results handed to add: the fields of a TaskExecutionResult that the
\* history reads; the k-th result added carries task id k
HistoryStatuses == {"completed", "failed", "cancelled", "running"}
HistoryDurations == {Undefined, <<1>>, <<2>>}
HistoryResults(taskId) ==
    [taskId : {taskId}, status : HistoryStatuses, durationMs : HistoryDurations]

HistoryAdd(res) ==
    /\ hAdds < MaxHistoryAdds
    /\ hAdds' = hAdds + 1
    /\ hOp' = <<"add", res>>
    /\ hRet' = Undefined
    /\ records' = historyAdd(records, res, historyMax)
    /\ UNCHANGED <<historyMax, hCleared>>
    /\ UNCHANGED <<runVars, queueVars, helperVars>>

HistoryGetStats ==
    /\ hOp' = <<"getStats">>
    /\ hRet' = <<getStats(records)>>
    /\ UNCHANGED <<records, historyMax, hAdds, hCleared>>
    /\ UNCHANGED <<runVars, queueVars, helperVars>>

\* arr.slice(0, end): a negative end counts from the end of the array
sliceTo(arr, end) ==
    LET to == IF end < 0 THEN Len(arr) + end ELSE end
    IN  SubSeq(arr, 1, IF to > Len(arr) THEN Len(arr) ELSE to)

\* a limit as a condition: undefined and 0 are falsy
truthy(limit) == limit # Undefined /\ limit[1] # 0

\* getRecent(limit = 50)
getRecent(recs, limit) ==
    sliceTo(recs, IF limit = Undefined THEN GetRecentDefaultLimit ELSE limit[1])

\* getByStatus(status, limit?)
getByStatus(recs, status, limit) ==
    LET filtered == SelectSeq(recs, LAMBDA r : r.status = status)
    IN  IF truthy(limit) THEN sliceTo(filtered, limit[1]) ELSE filtered

\* the limit argument: left out, or a number
LimitOptions == {Undefined} \cup {<<n>> : n \in 0..MaxLimit}

HistoryGetRecent(limit) ==
    /\ hOp' = <<"getRecent", limit>>
    /\ hRet' = <<getRecent(records, limit)>>
    /\ UNCHANGED <<records, historyMax, hAdds, hCleared>>
    /\ UNCHANGED <<runVars, queueVars, helperVars>>

HistoryGetByStatus(status, limit) ==
    /\ hOp' = <<"getByStatus", status, limit>>
    /\ hRet' = <<getByStatus(records, status, limit)>>
    /\ UNCHANGED <<records, historyMax, hAdds, hCleared>>
    /\ UNCHANGED <<runVars, queueVars, helperVars>>

HistoryClear ==
    /\ hOp' = <<"clear">>
    /\ hRet' = Undefined
    /\ records' = <<>>
    /\ hCleared' = hAdds
    /\ UNCHANGED <<historyMax, hAdds>>
    /\ UNCHANGED <<runVars, queueVars, helperVars>>

HistoryInit ==
    /\ records = <<>>
    /\ historyMax \in 0..MaxHistorySize
    /\ HistoryIdle
    /\ RunIdle
    /\ QueueIdle
    /\ HelperIdle

HistoryStep ==
    \/ \E res \in HistoryResults(hAdds + 1) : HistoryAdd(res)
    \/ HistoryGetStats
    \/ \E limit \in LimitOptions : HistoryGetRecent(limit)
    \/ \E status \in HistoryStatuses, limit \in LimitOptions :
          HistoryGetByStatus(status, limit)
    \/ HistoryClear

\* a TaskHistory driven by any sequence of its calls
SpecHistory == HistoryInit /\ [][HistoryStep]_vars

(***************************************************************************)
(* BaseTask.execute and BaseTaskExecutor.executeTask                       *)
(*                                                                         *)
(* An error message is the sequence of its words, so that                  *)
(* errorMessage.includes('cancelled') is a search of the message.          *)
(*                                                                         *)
(* The timeout value is not modelled: the timer may fire at any moment     *)
(* between being armed and being cleared.  BaseTask.execute catches what   *)
(* run throws; what reaches executeTask's catch block is a throw inside    *)
(* its try outside that wrapper (the logger, an overriding execute), which *)
(* the model admits at the start of any attempt (Rejections).              *)
(***************************************************************************)
tasks == {"echo"}                   \* the registered task types
TaskTypes == {"echo", "nope"}       \* the types callers ask for
RetryOptions == (-1)..MaxRetries    \* options.retries
Outputs == {<<"out1">>, <<"out2">>} \* what a run may return
RunErrors == {<<"boom">>}           \* what a run may throw at any time
TaskCancelled == <<"Task", "cancelled">>
Rejections == {<<"logger", "closed">>, <<"request", "cancelled">>}

unknownTaskType(type) == <<"Unknown", "task", "type:", type>>
cancelledBeforeExecution == <<"Task", "cancelled", "before", "execution">>
invalidInput == <<"Invalid", "input:", "Required">>

includes(message, word) == \E i \in 1..Len(message) : message[i] = word

RECURSIVE pow2(_)
pow2(n) == IF n <= 0 THEN 1 ELSE 2 * pow2(n - 1)

\* a wait computed from the retry count as it was before the increment
backoffMsBeforeIncrement(rc) == pow2(rc - 1) * 1000

\* Math.pow(2, retryCount) * 1000
backoffMs(rc) == pow2(rc) * 1000

TaskExecutionResult(taskId, status, output, error, rc) ==
    [taskId |-> taskId, status |-> status, output |-> output,
     error |-> error, retryCount |-> rc]

\* What one run-to-completion step of executeTask leaves behind: where the
\* execution suspends or that it returned, its locals, the backoff it began,
\* the result it returned, whether the result went to the history, and
\* whether the step called task.execute and run.
Step(pcv, rc, error, wait, res, recorded, executed, ran) ==
    [pc |-> pcv, retryCount |-> rc, lastError |-> error, wait |-> wait,
     result |-> res, recorded |-> recorded, executed |-> executed,
     ran |-> ran]

\* an unknown-type return whose message leaves the type out
unknownTypeNoName(taskId, type) ==
    Step("returned", 0, Undefined, Undefined,
         <<TaskExecutionResult(taskId, "failed", Undefined,
                               <<"Unknown", "task", "type:">>, 0)>>,
         FALSE, FALSE, FALSE)

\* the unknown-type return
unknownType(taskId, type) ==
    Step("returned", 0, Undefined, Undefined,
         <<TaskExecutionResult(taskId, "failed", Undefined,
                               unknownTaskType(type), 0)>>,
         FALSE, FALSE, FALSE)

\* a success branch that counts the successful attempt as a retry
succeededCountsAttempt(taskId, rc, error, output) ==
    Step("returned", rc + 1, error, Undefined,
         <<TaskExecutionResult(taskId, "completed", output, Undefined, rc + 1)>>,
         TRUE, FALSE, FALSE)

\* the success branch
succeeded(taskId, rc, error, output) ==
    Step("returned", rc, error, Undefined,
         <<TaskExecutionResult(taskId, "completed", output, Undefined, rc)>>,
         TRUE, FALSE, FALSE)

\* "All retries exhausted"
exhausted(taskId, rc, error) ==
    Step("returned", rc, error, Undefined,
         <<TaskExecutionResult(taskId, "failed", Undefined, error, rc)>>,
         TRUE, FALSE, FALSE)

\* a catch block that rethrows; "raised" is an executeTask that threw
caughtRethrows(taskId, rc, error, errorMessage) ==
    Step("raised", rc, error, Undefined, Undefined, FALSE, FALSE, FALSE)

\* the catch block
caught(taskId, rc, error, errorMessage) ==
    LET status == IF includes(errorMessage, "cancelled")
                  THEN "cancelled" ELSE "failed"
    IN  Step("returned", rc, error, Undefined,
             <<TaskExecutionResult(taskId, status, Undefined, errorMessage, rc)>>,
             TRUE, FALSE, FALSE)

\* a failure branch that does not await its sleep: the next attempt's
\* execute and run are called in the same step
failedNoAwait(taskId, rc, error, maxRetries) ==
    IF rc + 1 <= maxRetries
    THEN Step("running", rc + 1, error, <<backoffMs(rc + 1)>>, Undefined,
              FALSE, TRUE, TRUE)
    ELSE exhausted(taskId, rc + 1, error)

\* the failure branch: lastError, retryCount++, then the backoff sleep or,
\* as the loop test fails, the exhaustion
failed(taskId, rc, error, maxRetries) ==
    IF rc + 1 <= maxRetries
    THEN Step("backoff", rc + 1, error, <<backoffMs(rc + 1)>>, Undefined,
              FALSE, FALSE, FALSE)
    ELSE exhausted(taskId, rc + 1, error)

\* an execute that validates the input before it looks at the signal
executePreludeValidatesFirst(aborted, valid) ==
    IF ~valid THEN <<invalidInput>>
    ELSE IF aborted THEN <<cancelledBeforeExecution>>
    ELSE Undefined

\* an execute that does not look at the signal before it validates and runs
executePreludeNoSignalCheck(aborted, valid) ==
    IF ~valid THEN <<invalidInput>>
    ELSE Undefined

\* BaseTask.execute up to the call of run: what it returns without running,
\* or that it runs
executePrelude(aborted, valid) ==
    IF aborted THEN <<cancelledBeforeExecution>>
    ELSE IF ~valid THEN <<invalidInput>>
    ELSE Undefined

\* one pass of the while loop from its test to the await of task.execute;
\* rejection is <<message>> when task.execute rejects, else undefined
attempt(taskId, rc, error, maxRetries, aborted, valid, rejection) ==
    IF ~(rc <= maxRetries) THEN exhausted(taskId, rc, error)
    ELSE IF rejection # Undefined
    THEN [caught(taskId, rc, error, rejection[1]) EXCEPT !.executed = TRUE]
    ELSE LET early == executePrelude(aborted, valid)
         IN  IF early # Undefined
             THEN [failed(taskId, rc, early[1], maxRetries)
                      EXCEPT !.executed = TRUE]
             ELSE Step("running", rc, error, Undefined, Undefined,
                       FALSE, TRUE, TRUE)

\* a return that leaves a pending timer pending
timeoutKept(t, starting) == IF starting THEN "armed" ELSE t

\* clearTimeout(timeoutId) on a return path: a pending timer, the one the
\* same step armed included, is cancelled; one that has fired stays fired
timeoutCleared(t, starting) ==
    IF starting \/ t = "armed" THEN "cleared" ELSE t

\* the step's effect on the execution's state, the in-flight map, the timer
\* and the history; starting is TRUE in the step that registered the
\* controller and armed the timer
Apply(e, st, starting) ==
    /\ pc' = [pc EXCEPT ![e] = st.pc]
    /\ retryCount' = [retryCount EXCEPT ![e] = st.retryCount]
    /\ lastError' = [lastError EXCEPT ![e] = st.lastError]
    /\ result' = [result EXCEPT ![e] = st.result]
    /\ waits' = [waits EXCEPT ![e] = @ \o st.wait]
    /\ executeCalls' = [executeCalls EXCEPT ![e] = @ + (IF st.executed THEN 1 ELSE 0)]
    /\ runCalls' = [runCalls EXCEPT ![e] = @ + (IF st.ran THEN 1 ELSE 0)]
    /\ records' = IF st.recorded
                  THEN historyAdd(records, st.result[1], historyMax)
                  ELSE records
    /\ runningTasks' =
          IF st.pc = "returned" THEN runningTasks \ {e}
          ELSE IF starting THEN runningTasks \cup {e}
          ELSE runningTasks
    /\ timer' =
          IF st.pc = "returned"
          THEN [timer EXCEPT ![e] = timeoutCleared(@, starting)]
          ELSE IF starting THEN [timer EXCEPT ![e] = "armed"]
          ELSE timer

\* executeTask(type, params, options) up to its first suspension or return
ExecuteTask(e, type, valid, retries, rejection) ==
    /\ pc[e] = "idle"
    /\ \A d \in 1..(e - 1) : pc[d] # "idle"
    /\ call' = [call EXCEPT ![e] =
                   [type |-> type, valid |-> valid, retries |-> retries]]
    /\ IF type \notin tasks
       THEN /\ rejection = Undefined
            /\ runningTasks' = runningTasks
            /\ timer' = timer
            /\ LET st == unknownType(e, type)
               IN  /\ pc' = [pc EXCEPT ![e] = st.pc]
                   /\ result' = [result EXCEPT ![e] = st.result]
            /\ UNCHANGED <<retryCount, lastError, waits, executeCalls,
                           runCalls, records>>
       ELSE Apply(e, attempt(e, 0, Undefined, retries, FALSE, valid, rejection),
                  TRUE)
    /\ UNCHANGED <<signal, historyMax, runLog, cancelledInRun, cancelRet,
                   cancelled>>
    /\ UNCHANGED <<queueVars, histVars, helperVars>>

\* the task's run returns output: execute reports success
RunReturns(e, output) ==
    /\ pc[e] = "running"
    /\ runLog' = [runLog EXCEPT ![e] = Append(@, <<"returned", output>>)]
    /\ Apply(e, succeeded(e, retryCount[e], lastError[e], output), FALSE)
    /\ UNCHANGED <<call, signal, historyMax, cancelledInRun, cancelRet,
                   cancelled>>
    /\ UNCHANGED <<queueVars, histVars, helperVars>>

\* the task's run throws: execute catches it and reports the failure
RunThrows(e, error) ==
    /\ pc[e] = "running"
    /\ error = TaskCancelled => signal[e]
    /\ runLog' = [runLog EXCEPT ![e] = Append(@, <<"threw", error>>)]
    /\ Apply(e, failed(e, retryCount[e], error, call[e].retries), FALSE)
    /\ UNCHANGED <<call, signal, historyMax, cancelledInRun, cancelRet,
                   cancelled>>
    /\ UNCHANGED <<queueVars, histVars, helperVars>>

\* the backoff sleep's timer fires: the loop goes round
BackoffElapsed(e, rejection) ==
    /\ pc[e] = "backoff"
    /\ Apply(e, attempt(e, retryCount[e], lastError[e], call[e].retries,
                        signal[e], call[e].valid, rejection), FALSE)
    /\ UNCHANGED <<call, signal, historyMax, runLog, cancelledInRun, cancelRet,
                   cancelled>>
    /\ UNCHANGED <<queueVars, histVars, helperVars>>

\* the timeout timer fires: abortController.abort()
TimeoutFires(e) ==
    /\ timer[e] = "armed"
    /\ timer' = [timer EXCEPT ![e] = "fired"]
    /\ signal' = [signal EXCEPT ![e] = TRUE]
    /\ UNCHANGED <<pc, call, retryCount, lastError, result, runningTasks,
                   records, historyMax, executeCalls, runLog, runCalls, waits,
                   cancelledInRun, cancelRet, cancelled>>
    /\ UNCHANGED <<queueVars, histVars, helperVars>>

\* a cancelTask that empties the map
runningTasksCleared(running, taskId) == {}

\* a cancelTask that leaves the controller in the map
runningTasksKept(running, taskId) == running

\* this.runningTasks.delete(taskId)
runningTasksDelete(running, taskId) == running \ {taskId}

\* cancelTask(taskId)
CancelTask(taskId) ==
    /\ IF taskId \in runningTasks
       THEN /\ signal' = [signal EXCEPT ![taskId] = TRUE]
            /\ runningTasks' = runningTasksDelete(runningTasks, taskId)
            /\ cancelRet' = <<taskId, TRUE>>
            /\ cancelled' = cancelled \cup {taskId}
            /\ cancelledInRun' =
                  [cancelledInRun EXCEPT ![taskId] = @ \/ pc[taskId] = "running"]
       ELSE /\ cancelRet' = <<taskId, FALSE>>
            /\ UNCHANGED <<signal, runningTasks, cancelledInRun, cancelled>>
    /\ UNCHANGED <<pc, call, retryCount, lastError, result, timer, records,
                   historyMax, executeCalls, runLog, runCalls, waits>>
    /\ UNCHANGED <<queueVars, histVars, helperVars>>

Init == ExecIdle /\ QueueIdle /\ HistoryIdle /\ HelperIdle

\* executeTask is called, by one of the callers in E
Called(E) ==
    \E e \in E, type \in TaskTypes, valid \in BOOLEAN, retries \in RetryOptions,
       rejection \in {Undefined} \cup {<<m>> : m \in Rejections} :
        ExecuteTask(e, type, valid, retries, rejection)

\* a run settles, a timer fires, or cancelTask is called
Progress ==
    \/ \E e \in Executions, output \in Outputs : RunReturns(e, output)
    \/ \E e \in Executions, error \in RunErrors \cup {TaskCancelled} :
          RunThrows(e, error)
    \/ \E e \in Executions, rejection \in {Undefined} \cup {<<m>> : m \in Rejections} :
          BackoffElapsed(e, rejection)
    \/ \E e \in Executions : TimeoutFires(e)
    \/ \E taskId \in Executions : CancelTask(taskId)

Next == Called(Executions) \/ Progress

\* an executor serving executeTask and cancelTask calls
Spec == Init /\ [][Next]_vars

\* every run settles and every backoff timer fires
Fairness ==
    \A e \in Executions :
        /\ WF_vars(\/ \E output \in Outputs : RunReturns(e, output)
                   \/ \E error \in RunErrors \cup {TaskCancelled} :
                         RunThrows(e, error))
        /\ WF_vars(\E rejection \in {Undefined} \cup {<<m>> : m \in Rejections} :
                      BackoffElapsed(e, rejection))

\* an executor serving one executeTask call and any cancelTask calls, when
\* runs settle and timers fire
SpecLive == Init /\ [][Called({1}) \/ Progress]_vars /\ Fairness

\* every timer fires: the backoff sleep and the timeout
TimerFairness ==
    \A e \in Executions :
        /\ WF_vars(\E rejection \in {Undefined} \cup {<<m>> : m \in Rejections} :
                      BackoffElapsed(e, rejection))
        /\ WF_vars(TimeoutFires(e))

\* the same executor when timers fire but a run need not ever settle
SpecHung == Init /\ [][Called({1}) \/ Progress]_vars /\ TimerFairness

(***************************************************************************)
(* BaseTask.sleep and BaseTask.withTimeout                                 *)
(*                                                                         *)
(* Each helper builds one promise whose executor arms a timer and adds an  *)
(* 'abort' listener to the signal; withTimeout also starts the operation.  *)
(* An 'abort' event is dispatched when the signal trips, to the listeners  *)
(* registered at that time; a listener added to a signal that is already   *)
(* aborted is never called. A promise keeps its first settlement. A run    *)
(* may call the helpers one after the other, awaiting each; what an        *)
(* earlier call leaves behind (a pending operation, a listener) can only   *)
(* reach that call's own, settled promise and is dropped from the state.   *)
(***************************************************************************)
TimeoutOptions == {1000, 2000, 30000}   \* ms, timeoutMs

Fulfilled(value) == [state |-> "fulfilled", value |-> value]
Rejected(message) == [state |-> "rejected", value |-> message]

\* `Operation timed out after ${timeoutMs}ms`
timedOut(timeoutMs) ==
    <<"Operation", "timed", "out", "after", ToString(timeoutMs) \o "ms">>

\* how an operation may settle; one that checks the signal itself may
\* reject with 'Task cancelled' once the signal has tripped
OperationOutcomes ==
    {Fulfilled(v) : v \in Outputs}
        \cup {Rejected(m) : m \in RunErrors \cup {TaskCancelled}}

\* a promise that takes its latest settlement
settleLast(outcome, new) == <<new>>

\* resolve or reject: a promise already settled stays as it is
settle(outcome, new) == IF outcome = Undefined THEN <<new>> ELSE outcome

clearTimeout(t) == IF t = "armed" THEN "cleared" ELSE t

\* the first event since the helper was called
noted(event) == IF wFirst = Undefined THEN event ELSE wFirst

\* the run is not awaiting a helper and has calls left to make
mayCall ==
    \/ wCall = Undefined
    \/ wOutcome # Undefined /\ wCall[1].nth < MaxHelperCalls

nth == IF wCall = Undefined THEN 1 ELSE wCall[1].nth + 1

\* sleep(ms, signal)
HelperSleep(ms) ==
    /\ mayCall
    /\ wCall' = <<[helper |-> "sleep", ms |-> ms, aborted |-> wSignal,
                   nth |-> nth]>>
    /\ wTimer' = "armed"
    /\ wListener' = TRUE
    /\ wOperation' = "none"
    /\ wOutcome' = Undefined
    /\ wFirst' = Undefined
    /\ UNCHANGED wSignal
    /\ UNCHANGED <<execVars, queueVars, histVars>>

\* withTimeout(operation, timeoutMs, signal)
HelperWithTimeout(timeoutMs) ==
    /\ mayCall
    /\ wCall' = <<[helper |-> "withTimeout", ms |-> timeoutMs,
                   aborted |-> wSignal, nth |-> nth]>>
    /\ wTimer' = "armed"
    /\ wListener' = TRUE
    /\ wOperation' = "pending"
    /\ wOutcome' = Undefined
    /\ wFirst' = Undefined
    /\ UNCHANGED wSignal
    /\ UNCHANGED <<execVars, queueVars, histVars>>

\* the signal trips: the 'abort' event goes to the registered listener
HelperAbort ==
    /\ ~wSignal
    /\ wSignal' = TRUE
    /\ IF wListener
       THEN /\ wListener' = FALSE
            /\ wTimer' = clearTimeout(wTimer)
            /\ wOutcome' = settle(wOutcome, Rejected(TaskCancelled))
            /\ wFirst' = noted(<<"abort">>)
       ELSE UNCHANGED <<wListener, wTimer, wOutcome, wFirst>>
    /\ UNCHANGED <<wCall, wOperation>>
    /\ UNCHANGED <<execVars, queueVars, histVars>>

\* the helper's timer fires: sleep resolves, withTimeout rejects
HelperTimerFires ==
    /\ wTimer = "armed"
    /\ wTimer' = "fired"
    /\ wOutcome' = settle(wOutcome,
                          IF wCall[1].helper = "sleep"
                          THEN Fulfilled(Undefined)
                          ELSE Rejected(timedOut(wCall[1].ms)))
    /\ wFirst' = noted(<<"timeout">>)
    /\ UNCHANGED <<wCall, wSignal, wListener, wOperation>>
    /\ UNCHANGED <<execVars, queueVars, histVars>>

\* the operation's promise settles: the then or the catch callback
HelperOperationSettles(outcome) ==
    /\ wOperation = "pending"
    /\ outcome = Rejected(TaskCancelled) => wSignal
    /\ wOperation' = "settled"
    /\ wTimer' = clearTimeout(wTimer)
    /\ wOutcome' = settle(wOutcome, outcome)
    /\ wFirst' = noted(<<"operation", outcome>>)
    /\ UNCHANGED <<wCall, wSignal, wListener>>
    /\ UNCHANGED <<execVars, queueVars, histVars>>

HelperStep ==
    \/ \E ms \in TimeoutOptions : HelperSleep(ms)
    \/ \E timeoutMs \in TimeoutOptions : HelperWithTimeout(timeoutMs)
    \/ HelperAbort
    \/ HelperTimerFires
    \/ \E outcome \in OperationOutcomes : HelperOperationSettles(outcome)

\* a run's calls of the helpers, with the signal tripping at any time,
\* before a call included
SpecHelper == Init /\ [][HelperStep]_vars

(***************************************************************************)
(* Claims about TaskQueue, checked under SpecQueue                         *)
(***************************************************************************)
\* the weights as the specification states them
StatedWeight(label) ==
    IF label = "critical" THEN 4
    ELSE IF label = "high" THEN 3
    ELSE IF label = "low" THEN 1
    ELSE 2

\* C8: in every state reachable by add, next, remove and clear calls, all()
\* is in non-increasing order of priority weight (critical=4, high=3,
\* normal=2, low=1, unrecognized=2), and entries of equal weight are in the
\* order in which they were added.
C8_QueueSortedStable ==
    /\ \A i \in 1..Len(all) : all[i].priority = StatedWeight(all[i].task.priority)
    /\ \A i, j \in 1..Len(all) :
          i < j =>
             /\ all[i].priority >= all[j].priority
             /\ all[i].priority = all[j].priority
                   => all[i].arrival < all[j].arrival

\* three entries are queued after a removal: an unrecognized label tied with
\* a normal one, behind an entry that arrived after both
C8_Witness ==
    /\ Len(queue) = 3
    /\ qOp # Undefined /\ qOp[1] \in {"next", "remove"}
    /\ queue[1].arrival > queue[3].arrival
    /\ queue[2].task.priority = "urgent"
    /\ queue[3].task.priority = "normal"

\* C9: the size never exceeds the configured maximum; add on a queue whose
\* size equals the maximum returns false and leaves contents and order
\* unchanged; add below the maximum returns true and the size grows by one.
C9_QueueBounded ==
    /\ [](Len(queue) <= maxSize)
    /\ [][adds' = adds + 1 =>
            /\ Len(queue) = maxSize => qRet' = <<FALSE>> /\ queue' = queue
            /\ Len(queue) < maxSize =>
                  qRet' = <<TRUE>> /\ Len(queue') = Len(queue) + 1]_vars

\* an add was refused by a full queue of two or more entries
C9_Witness ==
    /\ qOp # Undefined /\ qOp[1] = "add"
    /\ qRet = <<FALSE>>
    /\ maxSize >= 2
    /\ Len(queue) = maxSize

\* C10: next() on an empty queue returns empty and leaves it empty; on a
\* non-empty queue it removes and returns the entry peek() would have
\* returned, the one of highest weight and earliest arrival among ties, and
\* leaves the others in their order; peek() never changes the queue.
C10_NextTakesHead ==
    [][/\ qOp' = <<"next">> =>
            IF Len(queue) = 0
            THEN qRet' = Undefined /\ queue' = <<>>
            ELSE /\ qRet' = <<queue[1]>>
                 /\ \A i \in 2..Len(queue) :
                       \/ queue[1].priority > queue[i].priority
                       \/ /\ queue[1].priority = queue[i].priority
                          /\ queue[1].arrival < queue[i].arrival
                 /\ queue' = Tail(queue)
       /\ qOp' = <<"peek">> =>
            /\ queue' = queue
            /\ qRet' = IF Len(queue) = 0 THEN Undefined ELSE <<queue[1]>>]_vars

\* next() returned an entry that had arrived after one it left queued
C10_Witness ==
    /\ qOp = <<"next">>
    /\ qRet # Undefined
    /\ Len(queue) >= 2
    /\ qRet[1].arrival > queue[1].arrival

(***************************************************************************)
(* Claims about executeTask and cancelTask, checked under Spec             *)
(***************************************************************************)
Returned(e) == pc[e] = "returned"

Registered(e) == call[e] # Undefined /\ call[e].type \in tasks

\* every settled run of e threw, and every call of task.execute ran run
EveryAttemptThrew(e) ==
    /\ Len(runLog[e]) = executeCalls[e]
    /\ \A i \in 1..Len(runLog[e]) : runLog[e][i][1] = "threw"

\* C1: every executeTask call, whatever its outcome, appends exactly one
\* record to the history, and getByTaskId on the returned taskId yields a
\* record whose taskId, status, error, output and retryCount are those of
\* the returned result.
C1_EveryCallRecorded ==
    \A e \in Executions :
        Returned(e) =>
            /\ Cardinality({i \in 1..Len(records) : records[i].taskId = e}) = 1
            /\ getByTaskId(records, e) = result[e]

\* C2: for every configured retry count r >= 0, an execution whose run fails
\* on every attempt, with no cancellation and no timeout, invokes run
\* exactly r+1 times and returns status failed with retryCount = r.
C2_AlwaysFailingRun ==
    \A e \in Executions :
        (/\ Returned(e) /\ Registered(e)
         /\ call[e].retries >= 0
         /\ ~signal[e]
         /\ EveryAttemptThrew(e))
        => /\ runCalls[e] = call[e].retries + 1
           /\ result[e][1].status = "failed"
           /\ result[e][1].retryCount = call[e].retries

\* C3: once cancelTask(taskId) was called while that execution's run was in
\* progress, its signal reports aborted from then on and the result it
\* returns is cancelled or failed, never completed.
C3_CancelledNeverCompletes ==
    \A e \in Executions :
        cancelledInRun[e] =>
            /\ signal[e]
            /\ Returned(e) => result[e][1].status \in {"cancelled", "failed"}

\* C4: provided every run settles and timers fire, every executeTask call
\* eventually returns a TaskExecutionResult and never raises to its caller,
\* on every path.
C4_AlwaysReturns ==
    \A e \in Executions :
        /\ [](pc[e] \in {"idle", "running", "backoff", "returned"})
        /\ [](Returned(e) =>
                /\ result[e] # Undefined
                /\ result[e][1].status \in {"completed", "failed", "cancelled"})
        /\ (pc[e] # "idle") ~> Returned(e)

\* an execution returned through the catch block after a timeout and a retry
C4_Witness ==
    \E e \in Executions :
        /\ Returned(e) /\ timer[e] = "fired" /\ retryCount[e] >= 1
        /\ result[e][1].error \in Rejections

\* C5: executeTask with an unregistered type returns status failed,
\* retryCount 0 and error "Unknown task type: <type>", having invoked no
\* execute and no run, begun no backoff and registered nothing in flight.
C5_UnknownType ==
    \A e \in Executions :
        (call[e] # Undefined /\ call[e].type \notin tasks) =>
            /\ Returned(e)
            /\ result[e][1].status = "failed"
            /\ result[e][1].retryCount = 0
            /\ result[e][1].error = <<"Unknown", "task", "type:", call[e].type>>
            /\ result[e][1].taskId = e
            /\ executeCalls[e] = 0 /\ runCalls[e] = 0
            /\ waits[e] = <<>>
            /\ e \notin runningTasks /\ timer[e] = "none"

\* an unknown type was asked for while another execution was in flight
C5_Witness ==
    \E e, d \in Executions :
        /\ Returned(e) /\ call[e].type = "nope" /\ call[e].retries = 2
        /\ d \in runningTasks /\ pc[d] = "backoff"

\* C6: when the raw input fails validation, execute is invoked exactly once,
\* run never, no backoff wait happens, and the result is failed. (Stated
\* for retries >= 0: the loop makes no attempt at all for a negative one.)
C6_ValidationShortCircuits ==
    \A e \in Executions :
        (Registered(e) /\ ~call[e].valid /\ call[e].retries >= 0) =>
            /\ executeCalls[e] = 1
            /\ runCalls[e] = 0
            /\ waits[e] = <<>>
            /\ pc[e] = "returned" /\ result[e][1].status = "failed"

\* C7: an execution whose run fails on attempts 1..k-1 and succeeds on
\* attempt k, with no cancellation and no timeout, returns completed with
\* that run's output and retryCount = k-1, 1 <= k <= retries+1, and run is
\* not invoked after the success.
C7_SuccessOnAttemptK ==
    \A e \in Executions :
        LET k == Len(runLog[e])
        IN  (k >= 1 /\ runLog[e][k][1] = "returned" /\ ~signal[e]) =>
                /\ \A i \in 1..(k - 1) : runLog[e][i][1] = "threw"
                /\ k <= call[e].retries + 1
                /\ Returned(e)
                /\ result[e][1].status = "completed"
                /\ result[e][1].output = runLog[e][k][2]
                /\ result[e][1].retryCount = k - 1
                /\ runCalls[e] = k

\* a run succeeded on its third attempt, and one on its first
C7_Witness ==
    \E e, d \in Executions :
        /\ Returned(e) /\ ~signal[e] /\ Len(runLog[e]) = 3
        /\ runLog[e][3][1] = "returned"
        /\ Returned(d) /\ ~signal[d] /\ Len(runLog[d]) = 1
        /\ runLog[d][1][1] = "returned"

\* C11: the history never holds more than maxSize records; it holds the
\* most recently added ones, most recent first (all of them while fewer
\* than maxSize were added since the last clear), and an add puts its
\* argument at the head and drops only from the old end.
C11_HistoryBounded ==
    /\ [](/\ Len(records) <= historyMax
          /\ Len(records) = IF hAdds - hCleared < historyMax
                            THEN hAdds - hCleared ELSE historyMax
          /\ \A i \in 1..Len(records) : records[i].taskId = hAdds - i + 1)
    /\ [][hAdds' # hAdds =>
            LET unshifted == <<hOp'[2]>> \o records
            IN  /\ Len(records') = IF Len(unshifted) < historyMax
                                   THEN Len(unshifted) ELSE historyMax
                /\ \A i \in 1..Len(records') : records'[i] = unshifted[i]]_vars

\* a full history of two took a third record and evicted the first
C11_Witness ==
    /\ hOp # Undefined /\ hOp[1] = "add"
    /\ historyMax = 2 /\ hAdds = 3 /\ hCleared = 0
    /\ Len(records) = 2

\* C12: cancelTask can always be called and returns whether the id was in
\* flight. For an id never issued, already returned or already cancelled
\* it returns false and leaves the in-flight set and every signal as they
\* were; when it returns true it trips that one signal and removes that one
\* id. It touches no execution's progress, result or record.
C12_CancelTaskTotal ==
    /\ [](\A id \in Executions : ENABLED CancelTask(id))
    /\ [][\A id \in Executions : CancelTask(id) =>
            LET ret == cancelRet'[2]
            IN  /\ cancelRet'[1] = id
                /\ ret = (id \in runningTasks)
                /\ (pc[id] \in {"idle", "returned"} \/ id \in cancelled) => ~ret
                /\ ret => /\ signal' = [signal EXCEPT ![id] = TRUE]
                          /\ runningTasks' = runningTasks \ {id}
                /\ ~ret => signal' = signal /\ runningTasks' = runningTasks
                /\ pc' = pc /\ result' = result /\ records' = records]_vars

\* a second cancelTask for an execution still inside its run returned false
C12_Witness ==
    \E id \in Executions :
        /\ cancelRet = <<id, FALSE>>
        /\ id \in cancelled /\ signal[id]
        /\ pc[id] = "running"

\* C13: an executeTask call has one timeout timer, armed when the call
\* starts and never again; when it fires the execution's signal is tripped,
\* the same one cancelTask trips, and from then on run is not invoked again
\* in that execution, whatever attempts remain.
C13_TimeoutSpansAttempts ==
    /\ [](\A e \in Executions : timer[e] = "fired" => signal[e])
    /\ [][\A e \in Executions :
            /\ timer[e] = "fired" =>
                  (runCalls'[e] = runCalls[e] /\ timer'[e] # "armed")
            /\ (timer'[e] = "armed" /\ timer[e] # "armed") => pc[e] = "idle"
            /\ (timer'[e] = "fired" /\ timer[e] # "fired") =>
                  (timer[e] = "armed" /\ signal'[e])]_vars

\* the timer fired during the first attempt's run, which then threw; the
\* remaining attempts were refused without running, and nobody cancelled
C13_Witness ==
    \E e \in Executions :
        /\ Returned(e) /\ e \notin cancelled /\ signal[e]
        /\ call[e].retries = 2
        /\ runCalls[e] = 1 /\ executeCalls[e] = 3
        /\ result[e][1].error = cancelledBeforeExecution

\* C14: a returned execution that did not complete has status cancelled
\* exactly when its error message indicates cancellation: a run that fails
\* with 'Task cancelled' after cancelTask ends as cancelled, any other
\* fault as failed.
C14_CancellationStatus ==
    \A e \in Executions :
        (/\ Returned(e) /\ Registered(e)
         /\ result[e][1].status # "completed"
         /\ result[e][1].error # Undefined) =>
            (result[e][1].status = "cancelled"
                <=> includes(result[e][1].error, "cancelled"))

\* C15: every result executeTask returns has status completed, failed or
\* cancelled, and carries an error message unless it completed, whatever
\* the retries option is, negative values included.
C15_ResultWellFormed ==
    \A e \in Executions :
        Returned(e) =>
            /\ result[e][1].status \in {"completed", "failed", "cancelled"}
            /\ result[e][1].status # "completed" =>
                  result[e][1].error # Undefined

\* the durations that the records of a history carry, added up
RECURSIVE DurationTotal(_)
DurationTotal(recs) ==
    IF recs = <<>> THEN 0
    ELSE (IF Head(recs).durationMs = Undefined THEN 0
          ELSE Head(recs).durationMs[1]) + DurationTotal(Tail(recs))

\* C16: getStats returns total = the number of records, completed, failed
\* and cancelled = the number of records with that status, avgDurationMs =
\* the integer nearest to the mean duration of the records that have one
\* (0 if none has), successRate = the hundredth nearest to completed/total
\* (0 for an empty history).
C16_GetStats ==
    (hOp = <<"getStats">>) =>
        LET stats == hRet[1]
            n == Len(records)
            With(status) == {i \in 1..n : records[i].status = status}
            timed == {i \in 1..n : records[i].durationMs # Undefined}
            m == Cardinality(timed)
            gap == 2 * DurationTotal(records) - 2 * stats.avgDurationMs * m
            off == 200 * Cardinality(With("completed"))
                      - 2 * stats.successRate * n
        IN  /\ stats.total = n
            /\ stats.completed = Cardinality(With("completed"))
            /\ stats.failed = Cardinality(With("failed"))
            /\ stats.cancelled = Cardinality(With("cancelled"))
            /\ IF m = 0 THEN stats.avgDurationMs = 0
               ELSE -m <= gap /\ gap <= m
            /\ IF n = 0 THEN stats.successRate = 0
               ELSE -n <= off /\ off <= n

\* statistics of three records, two of them completed, whose durations
\* 2, 2 and 1 have a mean that is not an integer
C16_Witness ==
    /\ hOp = <<"getStats">>
    /\ Len(records) = 3
    /\ hRet[1].completed = 2 /\ hRet[1].successRate = 67
    /\ DurationTotal(records) = 5 /\ hRet[1].avgDurationMs = 2
    /\ \A i \in 1..3 : records[i].durationMs # Undefined

\* C17: with executions of registered types interleaved in any way, the
\* history holds exactly one record for each one that has returned and
\* none for the others; the record is that execution's own result, with
\* its status and retryCount.
C17_OneRecordEach ==
    LET done == {e \in Executions : Registered(e) /\ Returned(e)}
        Of(e) == {i \in 1..Len(records) : records[i].taskId = e}
    IN  /\ Len(records) = Cardinality(done)
        /\ \A e \in done :
              /\ Cardinality(Of(e)) = 1
              /\ \A i \in Of(e) : records[i] = result[e][1]
        /\ \A e \in Executions \ done : Of(e) = {}

\* two overlapping executions: the second to start returned first, failed
\* after two retries, then the first one completed at its first attempt
C17_Witness ==
    /\ \A e \in Executions : Registered(e) /\ Returned(e)
    /\ Len(records) = 2
    /\ records[1].taskId = 1 /\ records[1].status = "completed"
    /\ records[1].retryCount = 0
    /\ records[2].taskId = 2 /\ records[2].status = "failed"
    /\ records[2].retryCount = 2

\* C18: once an execution's signal is tripped while its run is in progress,
\* executeTask eventually returns a result, even if that run never settles.
C18_AbandonsHungRun ==
    \A e \in Executions : (pc[e] = "running" /\ signal[e]) ~> Returned(e)

\* C19: within an execution at most one run is in progress at any time; a
\* further attempt starts only from the backoff wait that followed the
\* failure of the one before, when that wait is over; no attempt starts
\* once the execution has returned.
C19_AttemptsSequential ==
    /\ [](\A e \in Executions :
            LET inProgress == runCalls[e] - Len(runLog[e])
            IN  /\ inProgress \in {0, 1}
                /\ inProgress = 1 <=> pc[e] = "running")
    /\ [][\A e \in Executions :
            (executeCalls'[e] # executeCalls[e] \/ runCalls'[e] # runCalls[e]) =>
                /\ executeCalls'[e] = executeCalls[e] + 1
                /\ runCalls'[e] \in {runCalls[e], runCalls[e] + 1}
                /\ runCalls[e] = Len(runLog[e])
                /\ IF executeCalls[e] = 0 THEN pc[e] = "idle"
                   ELSE /\ pc[e] = "backoff"
                        /\ lastError[e] # Undefined
                        /\ Len(waits[e]) = executeCalls[e]]_vars

\* a third attempt is running after two failed runs and two backoff waits
C19_Witness ==
    \E e \in Executions :
        /\ pc[e] = "running" /\ runCalls[e] = 3
        /\ Len(runLog[e]) = 2 /\ Len(waits[e]) = 2

\* C20: a call of execute that finds the signal tripped fails with 'Task
\* cancelled before execution' without validating and without run; else an
\* invalid input fails with the validation message without run; else run
\* is invoked. An error run throws comes back as a failure with the
\* error's message: the attempt is an ordinary failed one, whatever the
\* message says. (Steps in which task.execute itself rejects are not calls
\* that returned, and are left out.)
C20_ExecuteOrder ==
    [][\A e \in Executions :
        /\ (/\ executeCalls'[e] = executeCalls[e] + 1
            /\ ~(Returned(e)' /\ result'[e][1].error \in Rejections)) =>
              IF signal[e]
              THEN /\ runCalls'[e] = runCalls[e]
                   /\ lastError'[e] = cancelledBeforeExecution
              ELSE IF ~call'[e].valid
              THEN /\ runCalls'[e] = runCalls[e]
                   /\ lastError'[e] = invalidInput
              ELSE /\ runCalls'[e] = runCalls[e] + 1
                   /\ pc'[e] = "running"
        /\ (/\ Len(runLog'[e]) = Len(runLog[e]) + 1
            /\ runLog'[e][Len(runLog'[e])][1] = "threw") =>
              LET message == runLog'[e][Len(runLog'[e])][2]
              IN  /\ lastError'[e] = message
                  /\ retryCount'[e] = retryCount[e] + 1
                  /\ pc'[e] \in {"backoff", "returned"}
                  /\ Returned(e)' =>
                        /\ result'[e][1].status = "failed"
                        /\ result'[e][1].error = message]_vars

\* an execution with an invalid input was refused for its tripped signal
\* and not for its input; another one's run threw 'Task cancelled'
C20_Witness ==
    \E e, d \in Executions :
        /\ Returned(e) /\ Registered(e) /\ ~call[e].valid /\ signal[e]
        /\ lastError[e] = cancelledBeforeExecution /\ runCalls[e] = 0
        /\ Returned(d) /\ lastError[d] = TaskCancelled
        /\ result[d][1].status = "failed"

\* C21: once an execution's signal is tripped, it begins no further
\* backoff wait: a tripped signal ends the execution without more waiting.
C21_BackoffRacesSignal ==
    [][\A e \in Executions : signal[e] => waits'[e] = waits[e]]_vars

\* C22: the k-th backoff wait of an execution lasts 2^k seconds (2 s, 4 s,
\* 8 s, ... before attempts 2, 3, 4, ...), the retry count having been
\* incremented to k before the wait; a wait follows every failed attempt
\* that leaves attempts remaining, and none follows the last failed attempt
\* or a successful one.
C22_ExponentialBackoff ==
    \A e \in Executions :
        /\ \A k \in 1..Len(waits[e]) : waits[e][k] = (2 ^ k) * 1000
        /\ pc[e] = "backoff" =>
              /\ Len(waits[e]) = retryCount[e]
              /\ Len(waits[e]) = executeCalls[e]
              /\ retryCount[e] <= call[e].retries
        /\ pc[e] = "running" => Len(waits[e]) = executeCalls[e] - 1
        /\ Returned(e) =>
              /\ Len(waits[e]) = IF executeCalls[e] = 0 THEN 0
                                 ELSE executeCalls[e] - 1
              /\ Len(waits[e]) <= IF call[e].retries < 0 THEN 0
                                  ELSE call[e].retries

\* one execution waited 2 s and 4 s and failed for good at its third
\* attempt without a further wait; another succeeded after one wait of 2 s
C22_Witness ==
    \E e, d \in Executions :
        /\ Returned(e) /\ waits[e] = <<2000, 4000>>
        /\ executeCalls[e] = 3 /\ result[e][1].status = "failed"
        /\ Returned(d) /\ waits[d] = <<2000>>
        /\ result[d][1].status = "completed"

\* C23: withTimeout settles once, with the outcome of the first of the
\* operation settling, the timeout elapsing (a timed-out failure) and the
\* signal being triggered (a cancelled failure); when the signal is already
\* triggered at the call, the outcome is the cancelled failure.
C23_WithTimeoutRace ==
    (wCall # Undefined /\ wCall[1].helper = "withTimeout") =>
        IF wCall[1].aborted
        THEN wOutcome # Undefined => wOutcome = <<Rejected(TaskCancelled)>>
        ELSE wOutcome =
                IF wFirst = Undefined THEN Undefined
                ELSE IF wFirst[1] = "operation" THEN <<wFirst[2]>>
                ELSE IF wFirst[1] = "timeout"
                THEN <<Rejected(<<"Operation", "timed", "out", "after",
                                  ToString(wCall[1].ms) \o "ms">>)>>
                ELSE <<Rejected(<<"Task", "cancelled">>)>>

\* C24: remove(taskId) with a matching entry removes exactly the first one
\* in queue order (among duplicates the one of highest priority, and of
\* earliest arrival among those), returns true and keeps every other entry
\* in its previous relative order; with no matching entry it returns false
\* and leaves the queue as it was.
C24_RemoveFirstMatch ==
    [][\A taskId \in QueueIds : QueueRemove(taskId) =>
        LET matches == {i \in 1..Len(queue) : queue[i].id = taskId}
        IN  IF matches = {}
            THEN qRet' = <<FALSE>> /\ queue' = queue
            ELSE LET k == CHOOSE i \in matches : \A j \in matches : i <= j
                 IN  /\ qRet' = <<TRUE>>
                     /\ Len(queue') = Len(queue) - 1
                     /\ \A i \in 1..(k - 1) : queue'[i] = queue[i]
                     /\ \A i \in k..Len(queue') : queue'[i] = queue[i + 1]
                     /\ \A j \in matches \ {k} :
                           \/ queue[k].priority > queue[j].priority
                           \/ /\ queue[k].priority = queue[j].priority
                              /\ queue[k].arrival < queue[j].arrival]_vars

\* of two entries with the removed id one is left, with an entry of the
\* other id queued ahead of it
C24_Witness ==
    /\ qOp = <<"remove", "a">> /\ qRet = <<TRUE>>
    /\ Len(queue) = 2
    /\ queue[1].id = "b" /\ queue[2].id = "a"
    /\ adds = 3

\* C25: getByStatus(status, limit) returns the records of that status, most
\* recent first: all of them when no limit is supplied, and the first
\* limit of them (all, if fewer) for every supplied limit, 0 included.
\* getRecent(limit) returns the first min(limit, size) records, the limit
\* being 50 when left out.
C25_LimitedQueries ==
    LET Upto(arr, n) == SubSeq(arr, 1, IF n < Len(arr) THEN n ELSE Len(arr))
    IN  /\ (hOp # Undefined /\ hOp[1] = "getByStatus") =>
              LET matching == SelectSeq(records, LAMBDA r : r.status = hOp[2])
              IN  hRet[1] = IF hOp[3] = Undefined THEN matching
                            ELSE Upto(matching, hOp[3][1])
        /\ (hOp # Undefined /\ hOp[1] = "getRecent") =>
              hRet[1] = Upto(records, IF hOp[2] = Undefined THEN 50
                                      ELSE hOp[2][1])

\* what belongs to one execution: its signal, timer, in-flight entry,
\* progress, retry count and result
OwnState(e) ==
    <<signal[e], timer[e], e \in runningTasks, pc[e], retryCount[e],
      lastError[e], result[e]>>

\* C26: cancelTask(a) and the timeout of execution a trip only a's signal
\* and remove only a's in-flight entry: the signal, timer, in-flight entry,
\* retry count and result of every other execution stay as they were. An
\* executeTask call starts with a signal of its own that is not tripped,
\* whatever happened to the other executions, and changes nothing of theirs.
C26_ExecutionsIsolated ==
    [][\A a \in Executions :
        /\ (CancelTask(a) \/ TimeoutFires(a)) =>
              \A b \in Executions \ {a} : OwnState(b)' = OwnState(b)
        /\ (pc[a] = "idle" /\ pc'[a] # "idle") =>
              /\ ~signal'[a]
              /\ \A b \in Executions \ {a} : OwnState(b)' = OwnState(b)]_vars

\* one execution was cancelled and timed out while the other, started
\* before that, is still running with its signal and timer untouched
C26_Witness ==
    \E a, b \in Executions :
        /\ a # b
        /\ a \in cancelled /\ signal[a] /\ timer[a] = "fired"
        /\ a \notin runningTasks /\ pc[a] = "backoff"
        /\ pc[b] = "running" /\ ~signal[b] /\ timer[b] = "armed"
        /\ b \in runningTasks /\ retryCount[b] = 1

\* C27: the in-flight set holds only ids of executions of registered types
\* that have started and not returned, and is empty when none is running;
\* an execution that has returned, on any path, is out of the set and its
\* timeout timer is not pending, so cancelTask on its id returns false and
\* its signal is not tripped any more.
C27_NoLeak ==
    /\ [](/\ \A e \in runningTasks :
                Registered(e) /\ pc[e] \in {"running", "backoff"}
          /\ \A e \in Executions :
                Returned(e) => (e \notin runningTasks /\ timer[e] # "armed")
          /\ (\A e \in Executions : pc[e] \in {"idle", "returned"}) =>
                runningTasks = {})
    /\ [][\A e \in Executions :
            Returned(e) =>
                /\ signal'[e] = signal[e]
                /\ timer'[e] = timer[e]
                /\ CancelTask(e) => cancelRet' = <<e, FALSE>>]_vars

\* cancelTask returned false for an execution that had completed, while
\* another execution returned through a rejection with its timer cleared
C27_Witness ==
    \E e, d \in Executions :
        /\ Returned(e) /\ result[e][1].status = "completed"
        /\ cancelRet = <<e, FALSE>> /\ timer[e] = "cleared" /\ ~signal[e]
        /\ Returned(d) /\ Registered(d) /\ result[d][1].error \in Rejections
        /\ timer[d] = "cleared"
        /\ runningTasks = {}

====
